---- MODULE Spec2Model ----
(***************************************************************************)
(* A model of src/src/ModelManager.ts: the catalog of test models, the     *)
(* four geometry generators, and the calls they make on the rasterizer     *)
(* (GeometricProcessor).                                                   *)
(*                                                                         *)
(* Numbers.  A JavaScript number is modelled as a record                   *)
(*     [num, den, rad, fn, an, ad]                                         *)
(* standing for  num/den + rad * fn(an * PI / ad).  A number with          *)
(* fn = "none" is the rational num/den in lowest terms.  A number with     *)
(* fn = "cos" or "sin" is the value the floating-point expression          *)
(* centre + radius * Math.cos(angle) yields at a non-zero angle; it is     *)
(* kept as an unevaluated term, since its digits are not expressible       *)
(* here.  Math.cos(0) = 1 and Math.sin(0) = 0 are exact and are evaluated. *)
(* Rational arithmetic is exact: a quotient such as 100 / 3 stands for the *)
(* double the code computes, and the properties below compare only values  *)
(* computed by the same expression, or values that are exact in doubles.   *)
(*                                                                         *)
(* The rasterizer, the frame buffer and the Color class are outside        *)
(* ModelManager.ts.  A fill operation is modelled by the record of its     *)
(* arguments; Color by its three channels and the bilinear blend.          *)
(***************************************************************************)
EXTENDS Integers, Sequences, FiniteSets, TLC

\* ------------------------------------------------------------------ bounds
MaxSegments == 3
MaxSteps == 2
MaxCalls == 2

\* ------------------------------------------------------- program constants
innerRadius == 40
outerRadius == 80
numSegments == 18
fanX == 10
fanYInset == 10
fanR == 150
numTriangles == 5
meshX == 10
meshY == 10
meshW == 180
meshH == 100
indexXSteps == 10
indexYSteps == 5
flatXSteps == 1
flatYSteps == 1

\* ----------------------------------------------------------------- numbers
Abs(n) == IF n < 0 THEN -n ELSE n

\* The greatest common divisor of a >= 0 and b > 0
GCD(a, b) ==
    LET common == {g \in 1..b : a % g = 0 /\ b % g = 0}
    IN  CHOOSE g \in common : \A h \in common : h <= g

\* The rational n/d (d # 0) in lowest terms, with a positive denominator.
Rat(n, d) ==
    LET g == GCD(Abs(n), Abs(d))
        s == IF d < 0 THEN -1 ELSE 1
    IN  [num |-> (s * n) \div g, den |-> (s * d) \div g,
         rad |-> 0, fn |-> "none", an |-> 0, ad |-> 1]

\* The integer n
Num(n) == [num |-> n, den |-> 1, rad |-> 0, fn |-> "none", an |-> 0, ad |-> 1]

IsInteger(v) == v.fn = "none" /\ v.den = 1

\* a / b for rationals, b # 0
Div(a, b) == Rat(a.num * b.den, a.den * b.num)

\* a + v: a rational; v rational or a trigonometric term without a centre
Plus(a, v) ==
    IF v.fn = "none"
    THEN Rat(a.num * v.den + v.num * a.den, a.den * v.den)
    ELSE [v EXCEPT !.num = a.num, !.den = a.den]

\* r * v: r an integer; v rational or a bare trigonometric term
Times(r, v) ==
    IF v.fn = "none"
    THEN Rat(r * v.num, v.den)
    ELSE [v EXCEPT !.rad = r * v.rad]

\* An angle an * PI / ad, kept as the pair the code computes it from.
Angle(n, d) == [an |-> n, ad |-> d]

Math_cos(a) ==
    IF a.an = 0 THEN Num(1)
    ELSE [num |-> 0, den |-> 1, rad |-> 1, fn |-> "cos", an |-> a.an, ad |-> a.ad]

Math_sin(a) ==
    IF a.an = 0 THEN Num(0)
    ELSE [num |-> 0, den |-> 1, rad |-> 1, fn |-> "sin", an |-> a.an, ad |-> a.ad]

\* Math.floor of a rational
Math_floor(v) == Num(v.num \div v.den)

\* ------------------------------------------------------------------ colour
\* new Color(r, g, b)
NewColor(r, g, b) == [r |-> Num(r), g |-> Num(g), b |-> Num(b)]

\* One channel of the bilinear blend at (s, t) = (sn/sd, tn/td), truncated.
Blend(c00, c10, c01, c11, sn, sd, tn, td) ==
    Num(((sd - sn) * (td - tn) * c00.num + sn * (td - tn) * c10.num
         + (sd - sn) * tn * c01.num + sn * tn * c11.num) \div (sd * td))

\* Color.interpolate2d(c00, c10, c01, c11, s, t), s = sn/sd, t = tn/td
interpolate2d(c00, c10, c01, c11, sn, sd, tn, td) ==
    [r |-> Blend(c00.r, c10.r, c01.r, c11.r, sn, sd, tn, td),
     g |-> Blend(c00.g, c10.g, c01.g, c11.g, sn, sd, tn, td),
     b |-> Blend(c00.b, c10.b, c01.b, c11.b, sn, sd, tn, td)]

\* The six pushes that append one vertex: x, y, 0, floor(r), floor(g), floor(b)
PushVertexRecord(vertices, px, py, color) ==
    vertices \o <<px, py, Num(0),
                  Math_floor(color.r), Math_floor(color.g), Math_floor(color.b)>>

\* The palette shared by the strip and the fan, and the mesh corner colours.
color0 == NewColor(255, 0, 0)
color1 == NewColor(0, 255, 0)
color2 == NewColor(0, 0, 255)
color3 == NewColor(255, 255, 0)
colors == <<color0, color1, color2>>

\* ------------------------------------------------------------------- state
VARIABLES
    params,        \* the generators' tunable constants: numSegments, the grid steps
    modelTesters,  \* the catalog Map, as its entries in insertion order
    lastCall,      \* the last public call: its arguments and what it returned
    lastFill,      \* the last call received by the rasterizer
    fillCount,     \* how many fill calls the rasterizer has received
    drawCount      \* history: drawModel calls made with a registered identifier

vars == <<params, modelTesters, lastCall, lastFill, fillCount, drawCount>>

\* A loop that pushes onto an array is modelled by what each iteration pushes:
\* pushes[i] for iteration i.  The loop over lo <= i < hi pushes these in the
\* order of i.
RECURSIVE InOrder(_, _, _)
InOrder(pushes, lo, hi) ==
    CASE hi <= lo -> <<>>
      [] hi = lo + 1 -> pushes[lo]
      [] OTHER -> InOrder(pushes, lo, (lo + hi) \div 2)
                      \o InOrder(pushes, (lo + hi) \div 2, hi)

\* ------------------------------------------------ generateTriangleStrip
\* StripSegment with the outer vertex of a segment coloured (i + 2) % 3, the
\* colour of the outer seed, instead of i % 3.
StripSegmentOuterShifted(i, x, y, n) ==
    LET currAngle == Angle(i * 2, n)
        nextAngle == Angle((i + 1) * 2, n)
        x0 == Plus(x, Times(innerRadius, Math_cos(currAngle)))
        y0 == Plus(y, Times(innerRadius, Math_sin(currAngle)))
        x1 == Plus(x, Times(outerRadius, Math_cos(currAngle)))
        y1 == Plus(y, Times(outerRadius, Math_sin(currAngle)))
        x2 == Plus(x, Times(innerRadius, Math_cos(nextAngle)))
        y2 == Plus(y, Times(innerRadius, Math_sin(nextAngle)))
        x3 == Plus(x, Times(outerRadius, Math_cos(nextAngle)))
        y3 == Plus(y, Times(outerRadius, Math_sin(nextAngle)))
        seed == IF i = 0
                THEN PushVertexRecord(
                         PushVertexRecord(<<>>, x0, y0, colors[(i % 3) + 1]),
                         x1, y1, colors[((i + 2) % 3) + 1])
                ELSE <<>>
    IN  PushVertexRecord(
            PushVertexRecord(seed, x2, y2, colors[((i + 1) % 3) + 1]),
            x3, y3, colors[((i + 2) % 3) + 1])

\* What iteration i of the loop over the segments pushes.
StripSegment(i, x, y, n) ==
    LET currAngle == Angle(i * 2, n)
        nextAngle == Angle((i + 1) * 2, n)
        x0 == Plus(x, Times(innerRadius, Math_cos(currAngle)))
        y0 == Plus(y, Times(innerRadius, Math_sin(currAngle)))
        x1 == Plus(x, Times(outerRadius, Math_cos(currAngle)))
        y1 == Plus(y, Times(outerRadius, Math_sin(currAngle)))
        x2 == Plus(x, Times(innerRadius, Math_cos(nextAngle)))
        y2 == Plus(y, Times(innerRadius, Math_sin(nextAngle)))
        x3 == Plus(x, Times(outerRadius, Math_cos(nextAngle)))
        y3 == Plus(y, Times(outerRadius, Math_sin(nextAngle)))
        seed == IF i = 0
                THEN PushVertexRecord(
                         PushVertexRecord(<<>>, x0, y0, colors[(i % 3) + 1]),
                         x1, y1, colors[((i + 2) % 3) + 1])
                ELSE <<>>
    IN  PushVertexRecord(
            PushVertexRecord(seed, x2, y2, colors[((i + 1) % 3) + 1]),
            x3, y3, colors[(i % 3) + 1])

\* StripLoop with the loop running to i <= numSegments.
StripLoopInclusive(i, x, y, n) ==
    InOrder([k \in i..n |-> StripSegment(k, x, y, n)], i, n + 1)

\* for (let i = ...; i < numSegments; i++)
StripLoop(i, x, y, n) ==
    InOrder([k \in i..(n - 1) |-> StripSegment(k, x, y, n)], i, n)

\* generateTriangleStrip centred at (width, height) instead of the frame's centre.
generateTriangleStripUnhalved(width, height) ==
    StripLoop(0, Num(width), Num(height), params.numSegments)

generateTriangleStrip(width, height) ==
    StripLoop(0, Div(Num(width), Num(2)), Div(Num(height), Num(2)),
              params.numSegments)

\* A call on the rasterizer.  The four fill operations take different
\* arguments; an argument an operation does not take is <<>> (indices) or 0
\* (numTriangles) in its record.
FillCall(kind, vertices, indices, nTriangles, frame, drawBorder, borderColor) ==
    [kind |-> kind, vertices |-> vertices, indices |-> indices,
     numTriangles |-> nTriangles, frame |-> frame,
     drawBorder |-> drawBorder, borderColor |-> borderColor]

\* Each drawing method is modelled by the sequence of rasterizer calls it makes.
renderTriangleStrip(frame, drawBorder, borderColor) ==
    LET vertices == generateTriangleStrip(frame.width, frame.height)
    IN  << FillCall("fillTriangleStrip", vertices, <<>>, 0,
                    frame, drawBorder, borderColor) >>

\* -------------------------------------------------- generateTriangleFan
\* FanRimVertex with the two rim colours exchanged.
FanRimVertexOddFirst(i, x, y) ==
    LET s == Div(Num(i), Num(numTriangles))
        color == IF i % 2 = 0 THEN color1 ELSE color2
        angle == Angle(-s.num, 2 * s.den)
        x1 == Plus(x, Times(fanR, Math_cos(angle)))
        y1 == Plus(y, Times(fanR, Math_sin(angle)))
    IN  PushVertexRecord(<<>>, x1, y1, color)

\* What iteration i of the loop over the rim pushes.
FanRimVertex(i, x, y) ==
    LET s == Div(Num(i), Num(numTriangles))
        color == IF i % 2 = 0 THEN color2 ELSE color1
        angle == Angle(-s.num, 2 * s.den)
        x1 == Plus(x, Times(fanR, Math_cos(angle)))
        y1 == Plus(y, Times(fanR, Math_sin(angle)))
    IN  PushVertexRecord(<<>>, x1, y1, color)

\* for (let i = ...; i < numTriangles + 1; i++)
FanLoop(i, x, y) ==
    InOrder([k \in i..numTriangles |-> FanRimVertex(k, x, y)], i, numTriangles + 1)

generateTriangleFan(frame, drawBorder, borderColor) ==
    LET x == Num(fanX)
        y == Num(frame.height - fanYInset)
        apex == PushVertexRecord(<<>>, x, y, color0)
        vertices == apex \o FanLoop(0, x, y)
    IN  << FillCall("fillTriangleFan", vertices, <<>>, 0,
                    frame, drawBorder, borderColor) >>

\* ----------------------------------------------------------- grid meshes
\* The body of the vertex pass, the same text in generateTrianglesIndex and
\* generateTriangles: what it pushes for grid point (i, j).
GridVertex(i, j, x_steps, y_steps) ==
    LET x_step == Div(Num(meshW), Num(x_steps))
        y_step == Div(Num(meshH), Num(y_steps))
        color == interpolate2d(color0, color1, color2, color3, i, x_steps, j, y_steps)
    IN  PushVertexRecord(<<>>,
                         Plus(Num(meshX), Times(i, x_step)),
                         Plus(Num(meshY), Times(j, y_step)),
                         color)

\* VertexColumn with the inner loop running to j < y_steps.
VertexColumnShort(i, j, x_steps, y_steps) ==
    InOrder([k \in j..(y_steps - 1) |-> GridVertex(i, k, x_steps, y_steps)], j, y_steps)

\* for (let j = ...; j < y_steps + 1; j++)
VertexColumn(i, j, x_steps, y_steps) ==
    InOrder([k \in j..y_steps |-> GridVertex(i, k, x_steps, y_steps)], j, y_steps + 1)

\* for (let i = ...; i < x_steps + 1; i++)
VertexPass(i, x_steps, y_steps) ==
    InOrder([k \in i..x_steps |-> VertexColumn(k, 0, x_steps, y_steps)], i, x_steps + 1)

\* The six indices generateTrianglesIndex pushes for grid cell (i, j).
IndexCell(i, j, y_steps) ==
    << i * (y_steps + 1) + j,
       i * (y_steps + 1) + j + 1,
       (i + 1) * (y_steps + 1) + j,
       i * (y_steps + 1) + j + 1,
       (i + 1) * (y_steps + 1) + j + 1,
       (i + 1) * (y_steps + 1) + j >>

\* The work of a pass over the cells: what it pushed, and what it added to
\* numTriangles.
Work(pushed, n) == [pushed |-> pushed, numTriangles |-> n]
Then(a, b) == Work(a.pushed \o b.pushed, a.numTriangles + b.numTriangles)

\* The work of the loop over lo <= i < hi whose iteration i does work[i].
RECURSIVE WorkInOrder(_, _, _)
WorkInOrder(work, lo, hi) ==
    CASE hi <= lo -> Work(<<>>, 0)
      [] hi = lo + 1 -> work[lo]
      [] OTHER -> Then(WorkInOrder(work, lo, (lo + hi) \div 2),
                       WorkInOrder(work, (lo + hi) \div 2, hi))

\* for (let j = ...; j < y_steps; j++)
IndexColumn(i, j, y_steps) ==
    WorkInOrder([k \in j..(y_steps - 1) |-> Work(IndexCell(i, k, y_steps), 2)],
                j, y_steps)

\* for (let i = ...; i < x_steps; i++)
IndexPass(i, x_steps, y_steps) ==
    WorkInOrder([k \in i..(x_steps - 1) |-> IndexColumn(k, 0, y_steps)], i, x_steps)

generateTrianglesIndex(frame, drawBorder, borderColor) ==
    LET x_steps == params.index_steps[1]
        y_steps == params.index_steps[2]
        vertices == VertexPass(0, x_steps, y_steps)
        pass == IndexPass(0, x_steps, y_steps)
    IN  << FillCall("fillTrianglesIndex", vertices, pass.pushed, pass.numTriangles,
                    frame, drawBorder, borderColor) >>

\* pushVertex without the scaling of the vertex index to a buffer offset.
pushVertexUnscaled(tmpVertices, index) ==
    SubSeq(tmpVertices, index + 1, index + 6)

\* The local function pushVertex of generateTriangles: what it pushes onto
\* vertices, the six numbers of tmpVertices from offset index * 6.
pushVertex(tmpVertices, index) ==
    SubSeq(tmpVertices, index * 6 + 1, index * 6 + 6)

\* FlatCell pushing only the first triangle of the cell.
FlatCellFirstTriangle(tmpVertices, i, j, y_steps) ==
    pushVertex(tmpVertices, i * (y_steps + 1) + j)
        \o pushVertex(tmpVertices, i * (y_steps + 1) + j + 1)
        \o pushVertex(tmpVertices, (i + 1) * (y_steps + 1) + j)

\* The six pushVertex calls generateTriangles makes for grid cell (i, j).
FlatCell(tmpVertices, i, j, y_steps) ==
    pushVertex(tmpVertices, i * (y_steps + 1) + j)
        \o pushVertex(tmpVertices, i * (y_steps + 1) + j + 1)
        \o pushVertex(tmpVertices, (i + 1) * (y_steps + 1) + j)
        \o pushVertex(tmpVertices, i * (y_steps + 1) + j + 1)
        \o pushVertex(tmpVertices, (i + 1) * (y_steps + 1) + j + 1)
        \o pushVertex(tmpVertices, (i + 1) * (y_steps + 1) + j)

\* for (let j = ...; j < y_steps; j++)
FlatColumn(tmpVertices, i, j, y_steps) ==
    WorkInOrder([k \in j..(y_steps - 1) |->
                    Work(FlatCell(tmpVertices, i, k, y_steps), 2)],
                j, y_steps)

\* for (let i = ...; i < x_steps; i++)
FlatPass(tmpVertices, i, x_steps, y_steps) ==
    WorkInOrder([k \in i..(x_steps - 1) |-> FlatColumn(tmpVertices, k, 0, y_steps)],
                i, x_steps)

\* The vertex pass fills tmpVertices; then the pass over the cells reads it.
generateTriangles(frame, drawBorder, borderColor) ==
    LET x_steps == params.flat_steps[1]
        y_steps == params.flat_steps[2]
        Expand(tmpVertices) ==
            LET pass == FlatPass(tmpVertices, 0, x_steps, y_steps)
            IN  << FillCall("fillTriangles", pass.pushed, <<>>, pass.numTriangles,
                            frame, drawBorder, borderColor) >>
    IN  CHOOSE calls \in {Expand(tmpVertices) :
                              tmpVertices \in {VertexPass(0, x_steps, y_steps)}} : TRUE

\* ----------------------------------------------------------------- catalog
\* Map.prototype.set: replace the value of an existing key in place, or
\* append a new entry.
MapSet(m, k, v) ==
    IF \E n \in 1..Len(m) : m[n].key = k
    THEN [n \in 1..Len(m) |-> IF m[n].key = k THEN [key |-> k, fn |-> v] ELSE m[n]]
    ELSE Append(m, [key |-> k, fn |-> v])

\* Array.from(map.keys())
MapKeys(m) == [n \in 1..Len(m) |-> m[n].key]

\* The constructor registering the strip first.
constructorStripFirst ==
    MapSet(MapSet(MapSet(MapSet(<<>>,
        "triangleStrip", "renderTriangleStrip"),
        "meshIndex", "generateTrianglesIndex"),
        "meshTriangles", "generateTriangles"),
        "triangleFan", "generateTriangleFan")

constructor ==
    MapSet(MapSet(MapSet(MapSet(<<>>,
        "meshIndex", "generateTrianglesIndex"),
        "meshTriangles", "generateTriangles"),
        "triangleFan", "generateTriangleFan"),
        "triangleStrip", "renderTriangleStrip")

getModels == MapKeys(modelTesters)

\* getModel answering every identifier with the strip.
getModelAnyIdentifier(model, width, height) ==
    CASE model = "triangleStrip" -> generateTriangleStrip(width, height)
      [] OTHER -> generateTriangleStrip(width, height)

getModel(model, width, height) ==
    CASE model = "triangleStrip" -> generateTriangleStrip(width, height)
      [] OTHER -> <<>>

\* drawModel with the break of the first case missing: the strip falls through
\* to the fan.
drawModelFallThrough(model, frame, drawBorder, borderColor) ==
    CASE model = "triangleStrip" ->
             renderTriangleStrip(frame, drawBorder, borderColor)
                 \o generateTriangleFan(frame, drawBorder, borderColor)
      [] model = "triangleFan" -> generateTriangleFan(frame, drawBorder, borderColor)
      [] model = "meshIndex" -> generateTrianglesIndex(frame, drawBorder, borderColor)
      [] model = "meshTriangles" -> generateTriangles(frame, drawBorder, borderColor)
      [] OTHER -> <<>>

\* drawModel, as the sequence of rasterizer calls it makes.
drawModel(model, frame, drawBorder, borderColor) ==
    CASE model = "triangleStrip" -> renderTriangleStrip(frame, drawBorder, borderColor)
      [] model = "triangleFan" -> generateTriangleFan(frame, drawBorder, borderColor)
      [] model = "meshIndex" -> generateTrianglesIndex(frame, drawBorder, borderColor)
      [] model = "meshTriangles" -> generateTriangles(frame, drawBorder, borderColor)
      [] OTHER -> <<>>

\* ------------------------------------------------------------------ inputs
Registered == {"meshIndex", "meshTriangles", "triangleFan", "triangleStrip"}
ModelIds == Registered \cup {"cube", ""}

Frame(w, h) == [width |-> w, height |-> h]
Frames == {Frame(200, 200), Frame(101, 50), Frame(0, 0)}
BorderColors == {NewColor(0, 0, 0)}

\* The values of the tunable constants as the code sets them.
Shipped ==
    [numSegments |-> numSegments,
     index_steps |-> <<indexXSteps, indexYSteps>>,
     flat_steps |-> <<flatXSteps, flatYSteps>>]

\* Other values of the tunable constants: 1..MaxSegments segments and grids of
\* up to MaxSteps x MaxSteps cells, the two mesh generators on the same grid.
SegmentCounts == (1..MaxSegments) \cup {numSegments}
StepPairs == ((1..MaxSteps) \X (1..MaxSteps))
             \cup {<<indexXSteps, indexYSteps>>, <<flatXSteps, flatYSteps>>}
Tunings ==
    {[numSegments |-> n, index_steps |-> p, flat_steps |-> p] :
        n \in SegmentCounts, p \in StepPairs}

\* ----------------------------------------------------------------- actions
NoCall ==
    [op |-> "none", model |-> "", width |-> 0, height |-> 0,
     value |-> <<>>, keys |-> <<>>, fills |-> <<>>]

NoFill == FillCall("none", <<>>, <<>>, 0, Frame(0, 0), FALSE, NewColor(0, 0, 0))

Construct(p) ==
    /\ params = p
    /\ modelTesters = constructor
    /\ lastCall = NoCall
    /\ lastFill = NoFill
    /\ fillCount = 0
    /\ drawCount = 0

Init == Construct(Shipped)

GenInit == \E p \in Tunings : Construct(p)

GetModels ==
    /\ lastCall' = [NoCall EXCEPT !.op = "getModels", !.keys = getModels]
    /\ UNCHANGED <<params, modelTesters, lastFill, fillCount, drawCount>>

GetModel(model, width, height) ==
    /\ lastCall' = [NoCall EXCEPT !.op = "getModel", !.model = model,
                                  !.width = width, !.height = height,
                                  !.value = getModel(model, width, height)]
    /\ UNCHANGED <<params, modelTesters, lastFill, fillCount, drawCount>>

DrawModel(model, frame, drawBorder, borderColor) ==
    /\ drawCount < MaxCalls
    /\ \E calls \in {drawModel(model, frame, drawBorder, borderColor)} :
        LET known == \E n \in 1..Len(modelTesters) : modelTesters[n].key = model IN
        /\ fillCount' = fillCount + Len(calls)
        /\ lastFill' = IF calls = <<>> THEN lastFill ELSE calls[Len(calls)]
        /\ drawCount' = drawCount + (IF known THEN 1 ELSE 0)
        /\ lastCall' = [NoCall EXCEPT !.op = "drawModel", !.model = model,
                                      !.width = frame.width, !.height = frame.height,
                                      !.fills = [n \in 1..Len(calls) |-> calls[n].kind]]
        /\ UNCHANGED <<params, modelTesters>>

Next ==
    \/ GetModels
    \/ \E model \in ModelIds, frame \in Frames :
           GetModel(model, frame.width, frame.height)
    \/ \E model \in ModelIds, frame \in Frames,
          drawBorder \in BOOLEAN, borderColor \in BorderColors :
           DrawModel(model, frame, drawBorder, borderColor)

Spec == Init /\ [][Next]_vars

\* The same operations on one frame, from every tuning of the constants.
GenNext ==
    \/ GetModels
    \/ \E model \in ModelIds : GetModel(model, 200, 200)
    \/ \E model \in ModelIds :
           DrawModel(model, Frame(200, 200), FALSE, NewColor(0, 0, 0))

GenSpec == GenInit /\ [][GenNext]_vars

\* ------------------------------------------------- reading a vertex buffer
\* Vertex k (from 0) of a buffer: its six numbers.
VertexAt(buf, k) == SubSeq(buf, 6 * k + 1, 6 * k + 6)
PositionAt(buf, k) == SubSeq(buf, 6 * k + 1, 6 * k + 3)
ColourAt(buf, k) == SubSeq(buf, 6 * k + 4, 6 * k + 6)
VertexCount(buf) == Len(buf) \div 6
WholeVertices(buf) == Len(buf) % 6 = 0
Channels(c) == <<c.r, c.g, c.b>>
Palette(n) == Channels(colors[n + 1])

StripReturned == lastCall.op = "getModel" /\ lastCall.model = "triangleStrip"
StripFilled == lastFill.kind = "fillTriangleStrip"

\* ------------------------------------------------------------------ claims

\* C1, as stated: the strip buffer of N segments holds N + 2 vertices.
C1_StripHasNPlus2Vertices ==
    StripReturned => Len(lastCall.value) = 6 * (params.numSegments + 2)

\* C1, amended: the strip buffer of N segments holds exactly 2N + 2 vertices
\* (two seed vertices, then two per segment), whether it is returned by
\* getModel or handed to fillTriangleStrip; with the code's 18 segments that is
\* 38 vertices, 228 numbers.
C1_StripHas2NPlus2Vertices ==
    /\ StripReturned =>
           /\ WholeVertices(lastCall.value)
           /\ VertexCount(lastCall.value) = 2 * params.numSegments + 2
           /\ params.numSegments = numSegments => Len(lastCall.value) = 228
    /\ StripFilled =>
           /\ WholeVertices(lastFill.vertices)
           /\ VertexCount(lastFill.vertices) = 2 * params.numSegments + 2

C1_Witness ==
    /\ StripReturned
    /\ params.numSegments = numSegments
    /\ lastCall.width = 200 /\ lastCall.height = 200
    /\ VertexCount(lastCall.value) = 38

\* C2: the buffers handed to fillTrianglesIndex for an X by Y grid hold
\* (X+1)(Y+1) vertices and 6XY indices, every index is a natural number below
\* (X+1)(Y+1), and the triangle count passed is 2XY, a third of the indices.
C2_IndexedMeshSizes ==
    lastFill.kind = "fillTrianglesIndex" =>
        LET X == params.index_steps[1]
            Y == params.index_steps[2]
        IN  /\ WholeVertices(lastFill.vertices)
            /\ VertexCount(lastFill.vertices) = (X + 1) * (Y + 1)
            /\ Len(lastFill.indices) = 6 * X * Y
            /\ \A n \in 1..Len(lastFill.indices) :
                   /\ lastFill.indices[n] \in Nat
                   /\ lastFill.indices[n] < (X + 1) * (Y + 1)
            /\ lastFill.numTriangles = 2 * X * Y
            /\ 3 * lastFill.numTriangles = Len(lastFill.indices)

C2_Witness ==
    /\ lastFill.kind = "fillTrianglesIndex"
    /\ params.index_steps = <<indexXSteps, indexYSteps>>
    /\ VertexCount(lastFill.vertices) = 66
    /\ Len(lastFill.indices) = 300

\* C3: on the same grid, triangle k of the buffer handed to fillTriangles holds
\* the records of the vertices that indices 3k, 3k+1, 3k+2 of the indexed mesh
\* refer to, for every triangle k of the 2XY.
C3_FlattenedEqualsIndexed ==
    (lastFill.kind = "fillTriangles" /\ params.index_steps = params.flat_steps) =>
        LET X == params.flat_steps[1]
            Y == params.flat_steps[2]
            indexed == generateTrianglesIndex(lastFill.frame, lastFill.drawBorder,
                                              lastFill.borderColor)[1]
        IN  /\ lastFill.numTriangles = 2 * X * Y
            /\ VertexCount(lastFill.vertices) = 3 * lastFill.numTriangles
            /\ \A k \in 0..(2 * X * Y - 1) : \A c \in 0..2 :
                   VertexAt(lastFill.vertices, 3 * k + c)
                       = VertexAt(indexed.vertices, indexed.indices[3 * k + c + 1])

C3_Witness ==
    /\ lastFill.kind = "fillTriangles"
    /\ params.index_steps = params.flat_steps
    /\ params.flat_steps = <<MaxSteps, MaxSteps>>
    /\ lastFill.numTriangles = 2 * MaxSteps * MaxSteps

\* C4, as stated: the first vertex of the strip for a 200 x 200 frame is at
\* (240, 100, 0).
C4_FirstVertexAt240 ==
    (StripReturned /\ lastCall.width = 200 /\ lastCall.height = 200) =>
        PositionAt(lastCall.value, 0) = <<Num(240), Num(100), Num(0)>>

\* C4, amended: the first vertex of the strip is segment 0's current-angle
\* inner point, (width/2 + innerRadius, height/2, 0); for a 200 x 200 frame
\* that is (140, 100, 0).
C4_FirstVertexIsInnerSeed ==
    StripReturned =>
        /\ PositionAt(lastCall.value, 0)
               = << Plus(Div(Num(lastCall.width), Num(2)), Num(innerRadius)),
                    Div(Num(lastCall.height), Num(2)),
                    Num(0) >>
        /\ (lastCall.width = 200 /\ lastCall.height = 200) =>
               PositionAt(lastCall.value, 0) = <<Num(140), Num(100), Num(0)>>

C4_Witness ==
    /\ StripReturned
    /\ lastCall.width = 200 /\ lastCall.height = 200
    /\ lastCall.value[1] = Num(140)

\* C5, as stated: the buffer handed to fillTriangles holds 6 vertices per
\* triangle of the count handed with it.
C5_SixVerticesPerTriangle ==
    lastFill.kind = "fillTriangles" =>
        VertexCount(lastFill.vertices) = 6 * lastFill.numTriangles

\* C5, amended: the buffer handed to fillTriangles holds 3 vertices (18
\* numbers) per triangle of the count handed with it.
C5_ThreeVerticesPerTriangle ==
    lastFill.kind = "fillTriangles" =>
        /\ WholeVertices(lastFill.vertices)
        /\ VertexCount(lastFill.vertices) = 3 * lastFill.numTriangles
        /\ Len(lastFill.vertices) = 18 * lastFill.numTriangles

C5_Witness ==
    /\ lastFill.kind = "fillTriangles"
    /\ params.flat_steps = <<flatXSteps, flatYSteps>>
    /\ lastFill.numTriangles = 2
    /\ VertexCount(lastFill.vertices) = 6

\* C6: for every frame height the fan buffer holds numTriangles + 2 = 7
\* vertices, the first is the apex (10, height - 10, 0) in palette colour 0,
\* and rim vertex i is in palette colour 2 for even i and colour 1 for odd i.
C6_FanShape ==
    lastFill.kind = "fillTriangleFan" =>
        /\ WholeVertices(lastFill.vertices)
        /\ VertexCount(lastFill.vertices) = numTriangles + 2
        /\ VertexCount(lastFill.vertices) = 7
        /\ VertexAt(lastFill.vertices, 0)
               = <<Num(10), Num(lastFill.frame.height - 10), Num(0),
                   Num(255), Num(0), Num(0)>>
        /\ \A i \in 0..numTriangles :
               ColourAt(lastFill.vertices, i + 1)
                   = IF i % 2 = 0 THEN <<Num(0), Num(0), Num(255)>>
                                  ELSE <<Num(0), Num(255), Num(0)>>

C6_Witness ==
    /\ lastFill.kind = "fillTriangleFan"
    /\ lastFill.frame.height = 50
    /\ lastFill.vertices[2] = Num(40)

\* C7: a drawModel call makes exactly one fill call, the one of the
\* identifier's primitive kind, when the identifier is one getModels returns,
\* and none for any other identifier; so the fill calls received number the
\* drawModel calls made with a registered identifier.
C7_FillOfKind(model) ==
    CASE model = "triangleStrip" -> "fillTriangleStrip"
      [] model = "triangleFan" -> "fillTriangleFan"
      [] model = "meshIndex" -> "fillTrianglesIndex"
      [] model = "meshTriangles" -> "fillTriangles"

C7_OneFillPerRegisteredDraw ==
    /\ fillCount = drawCount
    /\ lastCall.op = "drawModel" =>
           IF \E n \in 1..Len(getModels) : getModels[n] = lastCall.model
           THEN lastCall.fills = <<C7_FillOfKind(lastCall.model)>>
           ELSE lastCall.fills = <<>>

C7_Witness ==
    /\ lastCall.op = "drawModel"
    /\ lastCall.model = "cube"
    /\ lastCall.fills = <<>>
    /\ fillCount = 1 /\ drawCount = 1

\* C8: getModel returns the empty sequence for every identifier but
\* "triangleStrip", and for "triangleStrip" the non-empty strip buffer, the one
\* drawModel("triangleStrip") hands to the rasterizer for a frame of that
\* width and height.
C8_GetModelOnlyStrip ==
    lastCall.op = "getModel" =>
        IF lastCall.model = "triangleStrip"
        THEN /\ lastCall.value # <<>>
             /\ lastCall.value
                    = drawModel("triangleStrip", Frame(lastCall.width, lastCall.height),
                                FALSE, NewColor(0, 0, 0))[1].vertices
             /\ (StripFilled /\ lastFill.frame = Frame(lastCall.width, lastCall.height))
                    => lastCall.value = lastFill.vertices
        ELSE lastCall.value = <<>>

C8_Witness ==
    /\ StripReturned
    /\ StripFilled
    /\ lastFill.frame = Frame(lastCall.width, lastCall.height)
    /\ lastCall.width = 101
    /\ lastCall.value # <<>>

\* C9: in every reachable state the catalog's keys, and what getModels
\* returned, are meshIndex, meshTriangles, triangleFan, triangleStrip in that
\* order.
C9_CatalogFixed ==
    /\ MapKeys(modelTesters)
           = <<"meshIndex", "meshTriangles", "triangleFan", "triangleStrip">>
    /\ lastCall.op = "getModels" =>
           lastCall.keys = <<"meshIndex", "meshTriangles", "triangleFan", "triangleStrip">>

C9_Witness ==
    /\ lastCall.op = "getModels"
    /\ Len(lastCall.keys) = 4
    /\ drawCount = MaxCalls
    /\ fillCount > 0

\* C10: in the strip buffer the seeds are in palette colours 0 and 2, segment i
\* adds an inner vertex in colour (i+1) % 3 and an outer vertex in colour i % 3,
\* so the vertex at position k is in colour (3 - k % 3) % 3, the outer vertices
\* run through the three colours in a cycle, any three consecutive vertices
\* have three different colours, and every channel is an integer in 0..255.
C10_StripColours ==
    StripReturned =>
        LET buf == lastCall.value
            N == params.numSegments
            outer == {ColourAt(buf, 2 * m + 1) : m \in 0..N}
        IN  /\ ColourAt(buf, 0) = Palette(0)
            /\ ColourAt(buf, 1) = Palette(2)
            /\ \A i \in 0..(N - 1) :
                   /\ ColourAt(buf, 2 * i + 2) = Palette((i + 1) % 3)
                   /\ ColourAt(buf, 2 * i + 3) = Palette(i % 3)
            /\ \A k \in 0..(VertexCount(buf) - 1) :
                   ColourAt(buf, k) = Palette((3 - (k % 3)) % 3)
            /\ \A m \in 0..N : ColourAt(buf, 2 * m + 1) = Palette((m + 2) % 3)
            /\ N >= 2 => outer = {Palette(0), Palette(1), Palette(2)}
            /\ \A k \in 0..(VertexCount(buf) - 3) :
                   Cardinality({ColourAt(buf, k), ColourAt(buf, k + 1),
                                ColourAt(buf, k + 2)}) = 3
            /\ \A k \in 0..(VertexCount(buf) - 1) : \A c \in 4..6 :
                   /\ IsInteger(buf[6 * k + c])
                   /\ buf[6 * k + c].num \in 0..255

C10_Witness ==
    /\ StripReturned
    /\ params.numSegments = numSegments
    /\ ColourAt(lastCall.value, 37) = Palette(2)

====
